---- MODULE Spec2Model ----
(***************************************************************************)
(* A model of libkeen's internal Core (source/internal/core.cpp): the     *)
(* process-wide singleton behind Core::instance, its worker pool on a     *)
(* boost::asio io_service, the in-flight task registry mTaskVec, and the  *)
(* delivery paths postEvent and postCache.                                *)
(*                                                                         *)
(* Threads: the caller threads (Callers) run the public operations, one   *)
(* step per lock region or library call; every Core owns worker threads   *)
(* that sit in mIoService.run().                                          *)
(***************************************************************************)
EXTENDS Integers, Sequences, FiniteSets, TLC

(* ------------------------------ bounds -------------------------------- *)

\* caller threads
NumCallers == 2
\* Core objects constructed in one run of the lifecycle specification
MaxInst == 2
\* Core objects constructed in one run of the delivery specification
MaxPostInst == 1
\* postEvent calls that get as far as creating a Task
MaxTasks == 2
\* postCache calls
MaxBatches == 1
\* largest count handed to postCache
MaxCount == 2
\* largest value std::thread::hardware_concurrency() reports
MaxHw == 1
\* exceptions raised at the postEvent/postCache boundary
MaxFaults == 1
\* explicit flush() calls on a Core that is in use
MaxFlush == 1

Callers == 1..NumCallers
Insts == 1..MaxInst

\* half of an unsigned: a 32-bit unsigned is kept as <<high, low>> limbs
Limb == 65536

(* ------------------------- collaborators ------------------------------ *)

\* the one Client of the runs, and the events its callers post
ProjectId == "p1"
WriteKey == "k1"
Names == {"purchase"}
Payloads == {"x", "y"}

\* Curl::sendEvent: delivered, failed, or an exception
SendOutcomes == {"ok", "fail", "raise"}

BuildAddress(id, key, name) ==
    "https://api.keen.io/3.0/projects/" \o id \o "/events/" \o name
        \o "?api_key=" \o key

Pairs == {<<BuildAddress(ProjectId, WriteKey, n), d>> : n \in Names, d \in Payloads}
NoPair == <<"", "">>

RECURSIVE SumOver(_, _)
SumOver(f, S) ==
    IF S = {} THEN 0
    ELSE LET p == CHOOSE q \in S : TRUE IN f[p] + SumOver(f, S \ {p})

\* Cache: a multiset of (url, data) pairs
CacheSize(s) == SumOver(s, Pairs)
CachePush(s, p) == [s EXCEPT ![p] = @ + 1]
CacheRemove(s, p) == [s EXCEPT ![p] = IF @ > 0 THEN @ - 1 ELSE 0]
\* the selections pop(count) may return: min(count, size) entries, any of them
CachePopChoices(s, count) ==
    {sel \in [Pairs -> 0..MaxTasks] :
        /\ \A p \in Pairs : sel[p] <= s[p]
        /\ CacheSize(sel) = (IF count < CacheSize(s) THEN count ELSE CacheSize(s))}
CacheAfterPop(s, sel) == [p \in Pairs |-> s[p] - sel[p]]

RECURSIVE SelSeq(_, _)
\* the popped vector, one element per popped entry
SelSeq(sel, S) ==
    IF S = {} THEN <<>>
    ELSE LET p == CHOOSE q \in S : TRUE
         IN  [k \in 1..sel[p] |-> p] \o SelSeq(sel, S \ {p})

(* ------------------------------ state --------------------------------- *)

VARIABLES
    core,       \* the static CoreRef of instance(AccessType): 0 is null
    mutex,      \* the static mutex of instance(AccessType): 0 free, else the caller holding it
    ctorCount,  \* Core objects constructed so far; object i is the i-th
    coreLimit,  \* Core objects the run may construct
    hw,         \* what hardware_concurrency() reports
    alive,      \* per Core object: "none", "alive", "dying" (in ~Core), "dead"
    stopped,    \* per Core: mIoService is stopped
    queue,      \* per Core: handlers posted to mIoService and not yet dequeued
    mTaskVec,   \* per Core: the in-flight registry
    pool,       \* per Core: mThreadPool, each worker's position
    wtask,      \* per Core and worker: the task whose handler the worker is in
    held,       \* per caller: the CoreRef it keeps (0: none)
    tmp,        \* per caller: the temporary CoreRef of the lookup it is in
    pc,         \* per caller: its position
    dying,      \* per caller: the Core whose destructor it is running (0: none)
    ucResult,   \* per caller: what its last useCount() returned
    curTask,    \* per caller: the task its postEvent has registered
    tasks,      \* every Task made by postEvent, with what happened to it
    batches,    \* every postCache call, with what its handlers did
    store,      \* the retry cache
    nLogged,    \* LOG_ERROR lines written by the catch blocks of postEvent/postCache
    terminated, \* an exception left a thread function, or the process crashed
    nFlush,     \* explicit flush() calls so far
    flIdx,      \* per caller: the position of its flush() in the loop over mTaskVec
    flEnd,      \* per caller: the end of that loop, taken when the loop began
    wpop        \* per Core, per worker: the entries its batch handler popped and has
                \* still to post

vars == <<core, mutex, ctorCount, coreLimit, hw, alive, stopped, queue, mTaskVec, pool, wtask,
          held, tmp, pc, dying, ucResult, curTask, tasks, batches, store, nLogged,
          terminated, nFlush, flIdx, flEnd, wpop>>

flushVars == <<nFlush, flIdx, flEnd>>

(* ----------------------------- helpers -------------------------------- *)

\* shared_ptr::use_count of the control block of Core i
UseCountOf(i) ==
    (IF core = i THEN 1 ELSE 0)
    + Cardinality({c \in Callers : held[c] = i})
    + Cardinality({c \in Callers : tmp[c] = i})

\* static_cast<unsigned>(n), n small and not negative
ToUnsigned(n) == <<0, n>>
\* u - 1 in unsigned arithmetic
UnsignedDec(u) ==
    IF u[2] > 0 THEN <<u[1], u[2] - 1>>
    ELSE IF u[1] > 0 THEN <<u[1] - 1, Limb - 1>>
    ELSE <<Limb - 1, Limb - 1>>

\* a pool sized by hardware_concurrency() alone
NumThreadsNoFloor(h) == h

\* num_threads of flush
NumThreads(h) == IF h = 0 THEN 1 ELSE h
Workers == 1..NumThreads(MaxHw)

Handler(k, n, e) == [kind |-> k, id |-> n, entry |-> e]

\* task t is in the registry of Core i
InRegistry(i, t) == \E k \in 1..Len(mTaskVec[i]) : mTaskVec[i][k] = t

\* flush, the spawn loop: the pool after it
SpawnedPool(h) == [w \in Workers |-> IF w <= NumThreads(h) THEN "idle" ELSE "none"]

\* a join loop that waits for no thread
AllWorkersLeftNoJoin(i) == TRUE

\* the join loop of ~Core and of flush on Core i is through: every thread of
\* mThreadPool has left run()
AllWorkersLeft(i) == \A w \in Workers : pool[i][w] \in {"none", "exited"}

(* ------------------------- Core::instance ----------------------------- *)

\* Renew without the test of the static handle
DoesConstructUnchecked(type, cur) == type = "Renew"

\* instance(type) constructs a Core: the Renew branch
DoesConstruct(type, cur) == type = "Renew" /\ cur = 0

\* a reset that a plain lookup triggers too
DoesResetOnLookup(type, cur) == type \in {"Release", "Current"} /\ cur # 0

\* instance(type) resets the static handle: the Release branch
DoesReset(type, cur) == type = "Release" /\ cur # 0

\* Core::Core: flush() on the new object spawns the pool; nothing is registered yet
Construct(i) ==
    /\ alive' = [alive EXCEPT ![i] = "alive"]
    /\ pool' = [pool EXCEPT ![i] = SpawnedPool(hw)]

\* a destructor that goes to the join loop without stopping the service
BeginDtorNoStop(c, i) ==
    /\ alive' = [alive EXCEPT ![i] = "dying"]
    /\ UNCHANGED stopped
    /\ dying' = [dying EXCEPT ![c] = i]

\* Core::~Core up to the join loop, on thread c: mIoService.stop()
BeginDtor(c, i) ==
    /\ alive' = [alive EXCEPT ![i] = "dying"]
    /\ stopped' = [stopped EXCEPT ![i] = TRUE]
    /\ dying' = [dying EXCEPT ![c] = i]

\* a CoreRef to Core i (0: a null one) goes away on thread c; the last one runs ~Core
DropRef(c, i) ==
    IF i # 0 /\ UseCountOf(i) = 1
    THEN BeginDtor(c, i)
    ELSE UNCHANGED <<alive, stopped, dying>>

\* one call of instance(type) by caller c, under the static mutex; the handle
\* it returns is core'
InstanceStep(c, type) ==
    /\ mutex = 0
    /\ IF DoesConstruct(type, core)
       THEN /\ ctorCount < coreLimit
            /\ ctorCount' = ctorCount + 1
            /\ core' = ctorCount + 1
            /\ Construct(ctorCount + 1)
            /\ UNCHANGED <<stopped, dying, mutex>>
       ELSE IF DoesReset(type, core)
       THEN /\ core' = 0
            /\ UNCHANGED <<ctorCount, pool>>
            /\ IF UseCountOf(core) = 1
               THEN BeginDtor(c, core) /\ mutex' = c
               ELSE UNCHANGED <<alive, stopped, dying, mutex>>
       ELSE UNCHANGED <<core, ctorCount, alive, pool, stopped, dying, mutex>>

Ready(c) == ~terminated /\ dying[c] = 0

postVars == <<queue, mTaskVec, wtask, curTask, tasks, batches, store, nLogged,
              terminated, hw, coreLimit, flushVars, wpop>>

\* Core::instance(), first lookup: if (!instance(Current))
GetInstanceLookup(c) ==
    /\ Ready(c) /\ pc[c] = "idle" /\ held[c] = 0
    /\ InstanceStep(c, "Current")
    /\ tmp' = [tmp EXCEPT ![c] = core']
    /\ pc' = [pc EXCEPT ![c] = "giTest"]
    /\ UNCHANGED <<held, ucResult>> /\ UNCHANGED postVars

\* Core::instance(): the condition is evaluated and its temporary destroyed
GetInstanceTest(c) ==
    /\ Ready(c) /\ pc[c] = "giTest"
    /\ tmp' = [tmp EXCEPT ![c] = 0]
    /\ DropRef(c, tmp[c])
    /\ pc' = [pc EXCEPT ![c] = IF tmp[c] = 0 THEN "giRenew" ELSE "giCur"]
    /\ UNCHANGED <<core, mutex, ctorCount, pool, held, ucResult>> /\ UNCHANGED postVars

\* Core::instance(): return instance(Renew)
GetInstanceRenew(c) ==
    /\ Ready(c) /\ pc[c] = "giRenew"
    /\ InstanceStep(c, "Renew")
    /\ held' = [held EXCEPT ![c] = core']
    /\ pc' = [pc EXCEPT ![c] = "idle"]
    /\ UNCHANGED <<tmp, ucResult>> /\ UNCHANGED postVars

\* Core::instance(): return instance(Current)
GetInstanceCurrent(c) ==
    /\ Ready(c) /\ pc[c] = "giCur"
    /\ InstanceStep(c, "Current")
    /\ held' = [held EXCEPT ![c] = core']
    /\ pc' = [pc EXCEPT ![c] = "idle"]
    /\ UNCHANGED <<tmp, ucResult>> /\ UNCHANGED postVars

\* Core::release()
Release(c) ==
    /\ Ready(c) /\ pc[c] = "idle"
    /\ InstanceStep(c, "Release")
    /\ UNCHANGED <<held, tmp, pc, ucResult>> /\ UNCHANGED postVars

\* a caller lets go of the CoreRef it kept
DropHandle(c) ==
    /\ Ready(c) /\ pc[c] = "idle" /\ held[c] # 0
    /\ held' = [held EXCEPT ![c] = 0]
    /\ DropRef(c, held[c])
    /\ UNCHANGED <<core, mutex, ctorCount, pool, tmp, pc, ucResult>> /\ UNCHANGED postVars

\* Core::~Core, the join loop and the end of the object: every worker has left run()
DtorJoin(c) ==
    /\ ~terminated /\ dying[c] # 0
    /\ AllWorkersLeft(dying[c])
    /\ alive' = [alive EXCEPT ![dying[c]] = "dead"]
    /\ pool' = [pool EXCEPT ![dying[c]] =
                   [w \in Workers |-> IF @[w] = "exited" THEN "none" ELSE @[w]]]
    /\ queue' = [queue EXCEPT ![dying[c]] = <<>>]
    /\ mTaskVec' = [mTaskVec EXCEPT ![dying[c]] = <<>>]
    /\ dying' = [dying EXCEPT ![c] = 0]
    /\ mutex' = IF mutex = c THEN 0 ELSE mutex
    /\ UNCHANGED <<core, ctorCount, coreLimit, hw, stopped, wtask, held, tmp, pc,
                   ucResult, curTask, tasks, batches, store, nLogged, terminated,
                   flushVars, wpop>>

(* -------------------------- Core::useCount ---------------------------- *)

\* useCount() without the subtraction
UseCountValueNoDec(h) == ToUnsigned(IF h = 0 THEN 0 ELSE UseCountOf(h))

\* the value useCount() returns when its second lookup got handle h
UseCountValue(h) == UnsignedDec(ToUnsigned(IF h = 0 THEN 0 ELSE UseCountOf(h)))

\* a useCount() that never takes the early return
UseCountNullNever(h) == FALSE

\* useCount(): the test !instance(Current) on the handle h of the first lookup
UseCountNull(h) == h = 0

\* the result slot of a caller that has not called useCount() yet
NoResult == <<>>

\* useCount(): if (!instance(Current))
UseCountLookup(c) ==
    /\ Ready(c) /\ pc[c] = "idle"
    /\ InstanceStep(c, "Current")
    /\ tmp' = [tmp EXCEPT ![c] = core']
    /\ pc' = [pc EXCEPT ![c] = "ucTest"]
    /\ UNCHANGED <<held, ucResult>> /\ UNCHANGED postVars

\* useCount(): the condition; return 0 on a null handle
UseCountTest(c) ==
    /\ Ready(c) /\ pc[c] = "ucTest"
    /\ tmp' = [tmp EXCEPT ![c] = 0]
    /\ DropRef(c, tmp[c])
    /\ pc' = [pc EXCEPT ![c] = IF UseCountNull(tmp[c]) THEN "idle" ELSE "uc2"]
    /\ ucResult' = [ucResult EXCEPT ![c] = IF UseCountNull(tmp[c]) THEN ToUnsigned(0) ELSE @]
    /\ UNCHANGED <<core, mutex, ctorCount, pool, held>> /\ UNCHANGED postVars

\* useCount(): the second instance(Current)
UseCountSecond(c) ==
    /\ Ready(c) /\ pc[c] = "uc2"
    /\ InstanceStep(c, "Current")
    /\ tmp' = [tmp EXCEPT ![c] = core']
    /\ pc' = [pc EXCEPT ![c] = "ucRead"]
    /\ UNCHANGED <<held, ucResult>> /\ UNCHANGED postVars

\* useCount(): use_count() - 1 is read off the temporary, which then goes away
UseCountRead(c) ==
    /\ Ready(c) /\ pc[c] = "ucRead"
    /\ ucResult' = [ucResult EXCEPT ![c] = UseCountValue(tmp[c])]
    /\ tmp' = [tmp EXCEPT ![c] = 0]
    /\ DropRef(c, tmp[c])
    /\ pc' = [pc EXCEPT ![c] = "idle"]
    /\ UNCHANGED <<core, mutex, ctorCount, pool, held>> /\ UNCHANGED postVars

(* ------------------------ postEvent, postCache ------------------------ *)

callerVars == <<core, mutex, ctorCount, coreLimit, hw, alive, stopped, pool, wtask, held, tmp,
                dying, ucResult, flushVars, wpop>>

NewTask(i, url, data) == [inst |-> i, pair |-> <<url, data>>, ran |-> 0, failed |-> 0]

\* a Task body that drops the event when sendEvent fails
TaskBodyStoreNoPush(s, p, o) == s

\* the body of the Task of postEvent: what it leaves in the cache when
\* sendEvent ended with outcome o
TaskBodyStore(s, p, o) == IF o = "fail" THEN CachePush(s, p) ELSE s

\* the body of a fan-out handler of postCache
ResendStore(s, p, o) == IF o = "ok" THEN CacheRemove(s, p) ELSE s

\* a fan-out that posts every popped entry twice
FanOutTwice(b, popped) ==
    [k \in 1..(2 * Len(popped)) |-> Handler("sub", b, popped[((k - 1) % Len(popped)) + 1])]

\* the handlers the batch handler of postCache number b posts for the popped vector
FanOut(b, popped) == [k \in 1..Len(popped) |-> Handler("sub", b, popped[k])]

\* postEvent: the address is built, the Task made and pushed on mTaskVec under mTaskLock
PostEventRegister(c, name, data) ==
    /\ Ready(c) /\ pc[c] = "idle" /\ held[c] # 0
    /\ Len(tasks) < MaxTasks
    /\ tasks' = Append(tasks, NewTask(held[c], BuildAddress(ProjectId, WriteKey, name), data))
    /\ mTaskVec' = [mTaskVec EXCEPT ![held[c]] = Append(@, Len(tasks) + 1)]
    /\ curTask' = [curTask EXCEPT ![c] = Len(tasks) + 1]
    /\ pc' = [pc EXCEPT ![c] = "peSubmit"]
    /\ UNCHANGED <<queue, batches, store, nLogged, terminated>>
    /\ UNCHANGED callerVars

\* postEvent: mIoService.post of the handler that runs the task and erases it
PostEventSubmit(c) ==
    /\ Ready(c) /\ pc[c] = "peSubmit"
    /\ queue' = [queue EXCEPT ![held[c]] = Append(@, Handler("event", curTask[c], NoPair))]
    /\ curTask' = [curTask EXCEPT ![c] = 0]
    /\ pc' = [pc EXCEPT ![c] = "idle"]
    /\ UNCHANGED <<mTaskVec, tasks, batches, store, nLogged, terminated>>
    /\ UNCHANGED callerVars

\* postEvent: something in the try block throws (before the Task is registered, or
\* in post after it is); the catch block logs and the call returns
PostEventThrows(c) ==
    /\ Ready(c) /\ held[c] # 0
    /\ pc[c] \in {"idle", "peSubmit"}
    /\ nLogged < MaxFaults
    /\ nLogged' = nLogged + 1
    /\ curTask' = [curTask EXCEPT ![c] = 0]
    /\ pc' = [pc EXCEPT ![c] = "idle"]
    /\ UNCHANGED <<queue, mTaskVec, tasks, batches, store, terminated>>
    /\ UNCHANGED callerVars

\* postCache(count): the batch handler is posted
PostCache(c, count) ==
    /\ Ready(c) /\ pc[c] = "idle" /\ held[c] # 0
    /\ Len(batches) < MaxBatches
    /\ batches' = Append(batches, [inst |-> held[c], count |-> count, pops |-> 0,
                                   subs |-> 0, sends |-> 0, fails |-> 0, late |-> 0])
    /\ queue' = [queue EXCEPT ![held[c]] = Append(@, Handler("batch", Len(batches) + 1, NoPair))]
    /\ UNCHANGED <<mTaskVec, curTask, tasks, store, nLogged, terminated, pc>>
    /\ UNCHANGED callerVars

\* postCache: post throws; the catch block logs and the call returns
PostCacheThrows(c) ==
    /\ Ready(c) /\ pc[c] = "idle" /\ held[c] # 0
    /\ nLogged < MaxFaults
    /\ nLogged' = nLogged + 1
    /\ UNCHANGED <<queue, mTaskVec, curTask, tasks, batches, store, terminated, pc>>
    /\ UNCHANGED callerVars

(* ------------------------------ workers ------------------------------- *)

workerFrame == <<core, mutex, ctorCount, coreLimit, hw, alive, stopped, held, tmp, pc, dying,
                 ucResult, curTask, nLogged, flushVars>>

\* a worker that is inside the batch handler of postCache
batchFrame == <<mTaskVec, tasks, terminated>>

CanDequeue(i, w, kind) ==
    /\ ~terminated
    /\ pool[i][w] = "idle"
    /\ ~stopped[i]
    /\ queue[i] # <<>>
    /\ Head(queue[i]).kind = kind

\* the vector without the first occurrence of t
RECURSIVE EraseFirst(_, _)
EraseFirst(v, t) ==
    IF v = <<>> THEN <<>>
    ELSE IF Head(v) = t THEN Tail(v)
    ELSE <<Head(v)>> \o EraseFirst(Tail(v), t)

\* a worker takes the handler of postEvent and runs (*task)(): sendEvent ends with o
WorkerRunTask(i, w, o) ==
    /\ CanDequeue(i, w, "event")
    /\ LET t == Head(queue[i]).id IN
        /\ queue' = [queue EXCEPT ![i] = Tail(@)]
        /\ tasks' = [tasks EXCEPT ![t].ran = @ + 1,
                                  ![t].failed = IF o = "fail" THEN @ + 1 ELSE @]
        /\ IF o = "raise"
           THEN /\ terminated' = TRUE
                /\ pool' = [pool EXCEPT ![i][w] = "escaped"]
                /\ UNCHANGED <<store, wtask>>
           ELSE /\ store' = TaskBodyStore(store, tasks[t].pair, o)
                /\ pool' = [pool EXCEPT ![i][w] = "erase"]
                /\ wtask' = [wtask EXCEPT ![i][w] = t]
                /\ UNCHANGED terminated
    /\ UNCHANGED <<mTaskVec, batches>>
    /\ UNCHANGED <<workerFrame, wpop>>

\* the handler of postEvent, after the task: the task is erased from mTaskVec under mTaskLock
WorkerErase(i, w) ==
    /\ ~terminated
    /\ pool[i][w] = "erase"
    /\ InRegistry(i, wtask[i][w])
    /\ mTaskVec' = [mTaskVec EXCEPT ![i] = EraseFirst(@, wtask[i][w])]
    /\ pool' = [pool EXCEPT ![i][w] = "idle"]
    /\ wtask' = [wtask EXCEPT ![i][w] = 0]
    /\ UNCHANGED <<queue, tasks, batches, store, terminated>>
    /\ UNCHANGED <<workerFrame, wpop>>

\* a worker runs the batch handler of postCache: pop, then one post per popped entry
WorkerRunBatch(i, w, sel) ==
    /\ CanDequeue(i, w, "batch")
    /\ LET b == Head(queue[i]).id
           popped == SelSeq(sel, Pairs)
       IN
        /\ sel \in CachePopChoices(store, batches[b].count)
        /\ store' = CacheAfterPop(store, sel)
        /\ queue' = [queue EXCEPT ![i] = Tail(@) \o FanOut(b, popped)]
        /\ batches' = [batches EXCEPT ![b].pops = @ + 1,
                                      ![b].subs = @ + Len(FanOut(b, popped))]
    /\ UNCHANGED <<mTaskVec, pool, wtask, tasks, terminated>>
    /\ UNCHANGED <<workerFrame, wpop>>

\* a worker takes the batch handler of postCache and runs it up to the loop:
\* mCacheRef->pop
WorkerBatchPop(i, w, sel) ==
    /\ CanDequeue(i, w, "batch")
    /\ LET b == Head(queue[i]).id IN
        /\ sel \in CachePopChoices(store, batches[b].count)
        /\ store' = CacheAfterPop(store, sel)
        /\ queue' = [queue EXCEPT ![i] = Tail(@)]
        /\ batches' = [batches EXCEPT ![b].pops = @ + 1]
        /\ pool' = [pool EXCEPT ![i][w] = "fanout"]
        /\ wtask' = [wtask EXCEPT ![i][w] = b]
        /\ wpop' = [wpop EXCEPT ![i][w] = SelSeq(sel, Pairs)]
    /\ UNCHANGED batchFrame
    /\ UNCHANGED workerFrame

\* the loop of the batch handler: one post per popped entry, whether or not the
\* service has been stopped meanwhile (late counts the posts made after the stop)
WorkerBatchPost(i, w) ==
    /\ ~terminated
    /\ pool[i][w] = "fanout"
    /\ LET b == wtask[i][w]
           posted == FanOut(b, wpop[i][w])
       IN
        /\ queue' = [queue EXCEPT ![i] = @ \o posted]
        /\ batches' = [batches EXCEPT ![b].subs = @ + Len(posted),
                                      ![b].late = IF stopped[i] THEN @ + Len(posted) ELSE @]
    /\ pool' = [pool EXCEPT ![i][w] = "idle"]
    /\ wtask' = [wtask EXCEPT ![i][w] = 0]
    /\ wpop' = [wpop EXCEPT ![i][w] = <<>>]
    /\ UNCHANGED <<store, batchFrame>>
    /\ UNCHANGED workerFrame

\* a worker runs one fan-out handler of postCache: sendEvent ends with o
WorkerRunResend(i, w, o) ==
    /\ CanDequeue(i, w, "sub")
    /\ LET h == Head(queue[i]) IN
        /\ queue' = [queue EXCEPT ![i] = Tail(@)]
        /\ batches' = [batches EXCEPT ![h.id].sends = @ + 1,
                                      ![h.id].fails = IF o = "fail" THEN @ + 1 ELSE @]
        /\ IF o = "raise"
           THEN /\ terminated' = TRUE
                /\ pool' = [pool EXCEPT ![i][w] = "escaped"]
                /\ UNCHANGED store
           ELSE /\ store' = ResendStore(store, h.entry, o)
                /\ UNCHANGED <<terminated, pool>>
    /\ UNCHANGED <<mTaskVec, wtask, tasks>>
    /\ UNCHANGED <<workerFrame, wpop>>

\* mIoService.run() returns in a worker once the service is stopped
WorkerExit(i, w) ==
    /\ ~terminated
    /\ pool[i][w] = "idle"
    /\ stopped[i]
    /\ pool' = [pool EXCEPT ![i][w] = "exited"]
    /\ UNCHANGED <<queue, mTaskVec, wtask, tasks, batches, store, terminated>>
    /\ UNCHANGED <<workerFrame, wpop>>

\* what erase(cend()) can do when std::find did not find the task: the process
\* crashes, the vector is left as it was, or its last element is destroyed
EraseEndOutcomes == {"crash", "noop", "poplast"}

\* the handler of postEvent, after the task, when the task is no longer in mTaskVec:
\* std::find returns cend() and erase(cend()) is undefined
WorkerEraseMissing(i, w, u) ==
    /\ ~terminated
    /\ pool[i][w] = "erase"
    /\ ~InRegistry(i, wtask[i][w])
    /\ terminated' = (u = "crash")
    /\ mTaskVec' = [mTaskVec EXCEPT ![i] =
                       IF u = "poplast" /\ @ # <<>> THEN SubSeq(@, 1, Len(@) - 1) ELSE @]
    /\ pool' = [pool EXCEPT ![i][w] = IF u = "crash" THEN @ ELSE "idle"]
    /\ wtask' = [wtask EXCEPT ![i][w] = IF u = "crash" THEN @ ELSE 0]
    /\ UNCHANGED <<queue, tasks, batches, store>>
    /\ UNCHANGED <<workerFrame, wpop>>

(* ------------------------------ flush --------------------------------- *)

flushFrame == <<core, mutex, ctorCount, coreLimit, hw, alive, held, tmp, dying, ucResult,
                curTask, queue, wtask, batches, nLogged, wpop>>

\* caller c is inside flush()
InFlush(c) == pc[c] \in {"flJoin", "flDrain", "flSpawn"}

\* flush() called on a Core in use, by a thread that holds a handle, while no other
\* thread is inside flush() of that Core: mIoService.stop()
FlushStop(c) ==
    /\ Ready(c) /\ pc[c] = "idle" /\ held[c] # 0
    /\ nFlush < MaxFlush
    /\ \A d \in Callers : InFlush(d) => held[d] # held[c]
    /\ nFlush' = nFlush + 1
    /\ stopped' = [stopped EXCEPT ![held[c]] = TRUE]
    /\ pc' = [pc EXCEPT ![c] = "flJoin"]
    /\ UNCHANGED <<mTaskVec, pool, tasks, store, terminated, flIdx, flEnd>>
    /\ UNCHANGED flushFrame

\* flush: every worker is joined and mThreadPool cleared; the loop over mTaskVec
\* takes its begin and end, without mTaskLock
FlushJoin(c) ==
    /\ Ready(c) /\ pc[c] = "flJoin"
    /\ AllWorkersLeft(held[c])
    /\ pool' = [pool EXCEPT ![held[c]] = [w \in Workers |-> "none"]]
    /\ flIdx' = [flIdx EXCEPT ![c] = 1]
    /\ flEnd' = [flEnd EXCEPT ![c] = Len(mTaskVec[held[c]])]
    /\ pc' = [pc EXCEPT ![c] = "flDrain"]
    /\ UNCHANGED <<mTaskVec, stopped, tasks, store, terminated, nFlush>>
    /\ UNCHANGED flushFrame

\* another thread changed mTaskVec since the loop of caller c took its begin and end
FlushRaced(c) == Len(mTaskVec[held[c]]) # flEnd[c]

\* flush, the loop over mTaskVec: (*task)() on the calling thread, sendEvent ends
\* with o; nothing catches what the task throws, so the exception leaves flush.
\* After a push_back by another thread the loop goes on to the end it took.
FlushDrainTask(c, o) ==
    /\ Ready(c) /\ pc[c] = "flDrain"
    /\ flIdx[c] <= flEnd[c]
    /\ LET t == mTaskVec[held[c]][flIdx[c]] IN
        /\ tasks' = [tasks EXCEPT ![t].ran = @ + 1,
                                  ![t].failed = IF o = "fail" THEN @ + 1 ELSE @]
        /\ IF o = "raise"
           THEN /\ pc' = [pc EXCEPT ![c] = "flThrown"]
                /\ UNCHANGED <<store, flIdx>>
           ELSE /\ store' = TaskBodyStore(store, tasks[t].pair, o)
                /\ flIdx' = [flIdx EXCEPT ![c] = @ + 1]
                /\ UNCHANGED pc
    /\ UNCHANGED <<mTaskVec, pool, stopped, terminated, nFlush, flEnd>>
    /\ UNCHANGED flushFrame

\* flush, the loop or the clear after a push_back by another thread moved the
\* vector's storage: the iterators dangle and the process crashes
FlushDrainCrash(c) ==
    /\ Ready(c) /\ pc[c] = "flDrain"
    /\ FlushRaced(c)
    /\ terminated' = TRUE
    /\ UNCHANGED <<mTaskVec, pool, stopped, tasks, store, pc, flushVars>>
    /\ UNCHANGED flushFrame

\* flush: mTaskVec.clear(), without mTaskLock
FlushClear(c) ==
    /\ Ready(c) /\ pc[c] = "flDrain"
    /\ flIdx[c] > flEnd[c]
    /\ mTaskVec' = [mTaskVec EXCEPT ![held[c]] = <<>>]
    /\ pc' = [pc EXCEPT ![c] = "flSpawn"]
    /\ UNCHANGED <<pool, stopped, tasks, store, terminated, flushVars>>
    /\ UNCHANGED flushFrame

\* flush: mIoService.reset() and the new pool of max(1, hardware_concurrency) threads
FlushSpawn(c) ==
    /\ Ready(c) /\ pc[c] = "flSpawn"
    /\ stopped' = [stopped EXCEPT ![held[c]] = FALSE]
    /\ pool' = [pool EXCEPT ![held[c]] = SpawnedPool(hw)]
    /\ flIdx' = [flIdx EXCEPT ![c] = 0]
    /\ flEnd' = [flEnd EXCEPT ![c] = 0]
    /\ pc' = [pc EXCEPT ![c] = "idle"]
    /\ UNCHANGED <<mTaskVec, tasks, store, terminated, nFlush>>
    /\ UNCHANGED flushFrame

(* --------------------------- specification ---------------------------- *)

InitState ==
    /\ core = 0 /\ mutex = 0 /\ ctorCount = 0
    /\ hw \in 0..MaxHw
    /\ alive = [i \in Insts |-> "none"]
    /\ stopped = [i \in Insts |-> FALSE]
    /\ queue = [i \in Insts |-> <<>>]
    /\ mTaskVec = [i \in Insts |-> <<>>]
    /\ pool = [i \in Insts |-> [w \in Workers |-> "none"]]
    /\ wtask = [i \in Insts |-> [w \in Workers |-> 0]]
    /\ held = [c \in Callers |-> 0]
    /\ tmp = [c \in Callers |-> 0]
    /\ pc = [c \in Callers |-> "idle"]
    /\ dying = [c \in Callers |-> 0]
    /\ ucResult = [c \in Callers |-> NoResult]
    /\ curTask = [c \in Callers |-> 0]
    /\ tasks = <<>>
    /\ batches = <<>>
    /\ store = [p \in Pairs |-> 0]
    /\ nLogged = 0
    /\ terminated = FALSE
    /\ nFlush = 0
    /\ flIdx = [c \in Callers |-> 0]
    /\ flEnd = [c \in Callers |-> 0]
    /\ wpop = [i \in Insts |-> [w \in Workers |-> <<>>]]

Init == InitState /\ coreLimit = MaxPostInst

InitLife == InitState /\ coreLimit = MaxInst

\* the lifecycle operations: instance(), release(), a handle going away, ~Core
LifecycleNext(c) ==
    \/ GetInstanceLookup(c)
    \/ GetInstanceTest(c)
    \/ GetInstanceRenew(c)
    \/ GetInstanceCurrent(c)
    \/ Release(c)
    \/ DropHandle(c)
    \/ DtorJoin(c)

UseCountNext(c) ==
    \/ UseCountLookup(c)
    \/ UseCountTest(c)
    \/ UseCountSecond(c)
    \/ UseCountRead(c)

DeliveryNext(c) ==
    \/ \E n \in Names, d \in Payloads : PostEventRegister(c, n, d)
    \/ PostEventSubmit(c)
    \/ PostEventThrows(c)
    \/ \E k \in 0..MaxCount : PostCache(c, k)
    \/ PostCacheThrows(c)

WorkerNext(i, w) ==
    \/ \E o \in SendOutcomes : WorkerRunTask(i, w, o)
    \/ WorkerErase(i, w)
    \/ \E sel \in [Pairs -> 0..MaxTasks] : WorkerRunBatch(i, w, sel)
    \/ \E o \in SendOutcomes : WorkerRunResend(i, w, o)
    \/ WorkerExit(i, w)

\* callers that take, drop and release handles and post events and cache batches
Next ==
    \/ \E c \in Callers : LifecycleNext(c)
    \/ \E c \in Callers : DeliveryNext(c)
    \/ \E i \in Insts, w \in Workers : WorkerNext(i, w)

Spec == Init /\ [][Next]_vars

\* callers that take, drop and release handles and ask for useCount()
LifeNext ==
    \/ \E c \in Callers : LifecycleNext(c)
    \/ \E c \in Callers : UseCountNext(c)
    \/ \E i \in Insts, w \in Workers : WorkerExit(i, w)

SpecLife == InitLife /\ [][LifeNext]_vars

\* callers that only take and drop handles and ask for useCount(): nobody releases,
\* so no Core is ever destroyed
GetOrCreateNext ==
    \/ \E c \in Callers : GetInstanceLookup(c)
    \/ \E c \in Callers : GetInstanceTest(c)
    \/ \E c \in Callers : GetInstanceRenew(c)
    \/ \E c \in Callers : GetInstanceCurrent(c)
    \/ \E c \in Callers : DropHandle(c)
    \/ \E c \in Callers : UseCountNext(c)

SpecGetOrCreate == InitLife /\ [][GetOrCreateNext]_vars

FlushNext(c) ==
    \/ FlushStop(c)
    \/ FlushJoin(c)
    \/ \E o \in SendOutcomes : FlushDrainTask(c, o)
    \/ FlushDrainCrash(c)
    \/ FlushClear(c)
    \/ FlushSpawn(c)

\* callers that take handles, post events and call flush() on the Core in use
ResetNext ==
    \/ \E c \in Callers : GetInstanceLookup(c)
    \/ \E c \in Callers : GetInstanceTest(c)
    \/ \E c \in Callers : GetInstanceRenew(c)
    \/ \E c \in Callers : GetInstanceCurrent(c)
    \/ \E c \in Callers, n \in Names, d \in Payloads : PostEventRegister(c, n, d)
    \/ \E c \in Callers : PostEventSubmit(c)
    \/ \E c \in Callers : FlushNext(c)
    \/ \E i \in Insts, w \in Workers, o \in SendOutcomes : WorkerRunTask(i, w, o)
    \/ \E i \in Insts, w \in Workers : WorkerErase(i, w)
    \/ \E i \in Insts, w \in Workers, u \in EraseEndOutcomes : WorkerEraseMissing(i, w, u)
    \/ \E i \in Insts, w \in Workers : WorkerExit(i, w)

SpecFlush == Init /\ [][ResetNext]_vars

\* the workers, with the batch handler of postCache in its two steps
TeardownWorkerNext(i, w) ==
    \/ \E o \in SendOutcomes : WorkerRunTask(i, w, o)
    \/ WorkerErase(i, w)
    \/ \E sel \in [Pairs -> 0..MaxTasks] : WorkerBatchPop(i, w, sel)
    \/ WorkerBatchPost(i, w)
    \/ \E o \in SendOutcomes : WorkerRunResend(i, w, o)
    \/ WorkerExit(i, w)

\* callers that take, drop and release handles and post events and cache batches,
\* with workers that can be stopped in the middle of a batch handler
TeardownNext ==
    \/ \E c \in Callers : LifecycleNext(c)
    \/ \E c \in Callers, n \in Names, d \in Payloads : PostEventRegister(c, n, d)
    \/ \E c \in Callers : PostEventSubmit(c)
    \/ \E c \in Callers, k \in 0..MaxCount : PostCache(c, k)
    \/ \E i \in Insts, w \in Workers : TeardownWorkerNext(i, w)

SpecTeardown == Init /\ [][TeardownNext]_vars

\* every worker is a thread of its own and the thread in ~Core sits in join: a
\* step of theirs that stays possible is taken in the end
TeardownFairness ==
    /\ \A i \in Insts, w \in Workers : WF_vars(TeardownWorkerNext(i, w))
    /\ \A c \in Callers : WF_vars(DtorJoin(c))

SpecTeardownFair == SpecTeardown /\ TeardownFairness

TypeOK ==
    /\ core \in 0..MaxInst
    /\ mutex \in 0..NumCallers
    /\ ctorCount \in 0..MaxInst
    /\ \A i \in Insts : alive[i] \in {"none", "alive", "dying", "dead"}
    /\ \A c \in Callers : held[c] \in 0..MaxInst /\ tmp[c] \in 0..MaxInst
    /\ \A p \in Pairs : store[p] \in 0..(2 * MaxTasks)
    /\ nFlush \in 0..MaxFlush
    /\ \A c \in Callers : flIdx[c] \in 0..(MaxTasks + 1) /\ flEnd[c] \in 0..MaxTasks

(* ------------------------------ claims -------------------------------- *)

TaskIds == 1..Len(tasks)
BatchIds == 1..Len(batches)
\* C1: when the teardown that release() runs (the thread in ~Core holds the
\* instance mutex) finishes, every task that was still in the registry of the
\* released Core has executed its body.
C1_ReleaseRunsRegisteredTasks ==
    [][\A c \in Callers :
          (dying[c] # 0 /\ mutex = c /\ dying'[c] = 0)
              => \A t \in TaskIds : InRegistry(dying[c], t) => tasks'[t].ran >= 1]_vars

\* C2: when a fan-out handler of postCache ends with a failed resend, the entry
\* it was resending is in the cache again.
C2_RetainedOnFailure ==
    [][\A i \in Insts :
          (/\ queue[i] # <<>>
           /\ Head(queue[i]).kind = "sub"
           /\ queue'[i] = Tail(queue[i])
           /\ batches'[Head(queue[i]).id].fails = batches[Head(queue[i]).id].fails + 1)
              => store'[Head(queue[i]).entry] >= 1]_vars

\* C3: at most one Core object is alive at any time.
C3_AtMostOneInstance == Cardinality({i \in Insts : alive[i] = "alive"}) <= 1

\* C4: when nobody releases, the constructor runs at most once, every handle a
\* caller holds is the one Core of the static handle, and an instance() call that
\* found the Core on its first lookup returns it (never null).
C4_ConstructedOnce ==
    /\ ctorCount <= 1
    /\ \A c \in Callers :
          /\ held[c] # 0 => (held[c] = 1 /\ core = 1)
          /\ pc[c] = "giCur" => core = 1
          /\ (pc[c] = "giRenew" /\ ctorCount = 1) => core = 1

\* two callers raced through instance(): one has constructed and holds the Core,
\* the other saw a null handle and is about to call instance(Renew)
C4_Witness == pc[1] = "giRenew" /\ held[2] = 1 /\ ctorCount = 1

PurchaseUrl == "https://api.keen.io/3.0/projects/p1/events/purchase?api_key=k1"

Holders(i) == {c \in Callers : held[c] = i}
\* the temporaries of the lookups of callers other than c that refer to Core i
OtherTemporaries(c, i) == {d \in Callers \ {c} : tmp[d] = i}
\* caller c's useCount() returns in this step, having got a Core on both lookups
UseCountReturns(c) == pc[c] = "ucRead" /\ pc'[c] = "idle" /\ tmp[c] # 0

\* C6: useCount() on an existing Core returns the number of callers that hold
\* a handle to it.
C6_UseCountIsHolders ==
    [][\A c \in Callers :
          (UseCountReturns(c) /\ core = tmp[c])
              => ucResult'[c] = ToUnsigned(Cardinality(Holders(tmp[c])))]_vars

\* C6 as amended: useCount() on the Core of the static handle returns the k
\* callers that hold a handle, plus one for the static handle itself, plus the
\* temporaries of lookups other threads are in: use_count() less the one
\* temporary of the query itself.
C6_UseCountIsHoldersPlusStatic ==
    [][\A c \in Callers :
          (UseCountReturns(c) /\ core = tmp[c])
              => ucResult'[c] = ToUnsigned(Cardinality(Holders(tmp[c])) + 1
                                           + Cardinality(OtherTemporaries(c, tmp[c])))]_vars

\* useCount() has returned 2 to caller 1 while caller 2 alone holds the Core
C6_Witness ==
    /\ pc[1] = "idle" /\ pc[2] = "idle"
    /\ ucResult[1] = ToUnsigned(2)
    /\ core # 0 /\ held[2] = core /\ held[1] = 0

\* C7: a useCount() whose first lookup finds no Core in the static handle (none
\* was made yet, or release() has reset it) returns 0, whoever still holds handles.
C7_UseCountZeroWithoutInstance ==
    [][\A c \in Callers :
          /\ (pc[c] = "idle" /\ pc'[c] = "ucTest" /\ core = 0) => tmp'[c] = 0
          /\ (pc[c] = "ucTest" /\ tmp[c] = 0 /\ pc'[c] # "ucTest")
                => (pc'[c] = "idle" /\ ucResult'[c] = ToUnsigned(0))]_vars

\* useCount() has returned 0 to caller 1 after a release, while caller 2 still
\* holds the released Core
C7_Witness ==
    /\ pc[1] = "idle" /\ ucResult[1] = ToUnsigned(0)
    /\ core = 0 /\ ctorCount = 1
    /\ held[2] = 1 /\ alive[1] = "alive"

\* C8: no exception leaves a caller thread or a worker thread.
C8_NoEscapingException == ~terminated

\* C9: one postCache(count) pops once at most, posts at most count fan-out
\* handlers and causes at most count sends.
C9_AtMostCountEntries ==
    \A b \in BatchIds :
        /\ batches[b].pops <= 1
        /\ batches[b].subs <= batches[b].count
        /\ batches[b].sends <= batches[b].subs

\* a postCache(1) on a cache of two entries has resent one and left the other
C9_Witness ==
    \E b \in BatchIds :
        /\ batches[b].count = 1
        /\ batches[b].sends = 1
        /\ CacheSize(store) >= 1
        /\ \A t \in TaskIds : tasks[t].failed = 1
        /\ Len(tasks) = 2

\* caller c's step is a call of instance(Current)
CurrentLookupBy(c) ==
    \/ pc[c] = "idle" /\ pc'[c] \in {"giTest", "ucTest"}
    \/ pc[c] = "uc2" /\ pc'[c] = "ucRead"
    \/ pc[c] = "giCur" /\ pc'[c] = "idle"

\* C10: instance(Current) changes neither the static handle nor any Core, and
\* instance(Renew) on an existing Core constructs nothing and returns that Core.
C10_LookupFrame ==
    [][\A c \in Callers :
          /\ CurrentLookupBy(c)
                => /\ core' = core /\ alive' = alive /\ ctorCount' = ctorCount
                   /\ pool' = pool /\ stopped' = stopped
          /\ (pc[c] = "giRenew" /\ pc'[c] = "idle" /\ core # 0)
                => /\ core' = core /\ alive' = alive /\ ctorCount' = ctorCount
                   /\ pool' = pool /\ stopped' = stopped
                   /\ held'[c] = core]_vars

\* caller 2 is about to call instance(Renew) on the Core caller 1 has made
C10_Witness == pc[2] = "giRenew" /\ core # 0 /\ held[1] = core /\ alive[core] = "alive"

\* the unit behind handler h, queued at Core i, is in mTaskVec: mTaskVec holds
\* the Tasks of postEvent only
Registered(i, h) == h.kind = "event" /\ InRegistry(i, h.id)

\* C11: every unit handed to mIoService.post (the handler of postEvent, the batch
\* handler of postCache, each fan-out handler) is in the registry when it is
\* submitted, so every handler waiting in the queue has its unit in mTaskVec.
C11_RegisteredBeforeSubmitted ==
    \A i \in Insts : \A k \in 1..Len(queue[i]) : Registered(i, queue[i][k])

\* the handler of task t waits in the queue of its Core
InQueue(t) ==
    \E k \in 1..Len(queue[tasks[t].inst]) :
        queue[tasks[t].inst][k] = Handler("event", t, NoPair)

\* a caller has registered task t and is about to submit it
BeingSubmitted(t) == \E c \in Callers : pc[c] = "peSubmit" /\ curTask[c] = t

\* a worker has run the body of task t and is about to erase it
BeingErased(t) ==
    \E w \in Workers : pool[tasks[t].inst][w] = "erase" /\ wtask[tasks[t].inst][w] = t

\* C12: a task of postEvent is in the registry exactly while it is submitted and
\* not finished: from its registration (the submission follows) until the worker
\* that ran its body erases it; it never stays registered without being submitted.
C12_RegisteredIffInFlight ==
    ~terminated =>
        \A t \in TaskIds :
            InRegistry(tasks[t].inst, t) <=> (BeingSubmitted(t) \/ InQueue(t) \/ BeingErased(t))

\* C13: every access to mTaskVec is made under mTaskLock, so no two threads
\* access it at the same time: while the loop of flush over mTaskVec is under
\* way, with a task still to be read, no other thread adds to the vector or
\* removes from it.
C13_RegistryUnderLock ==
    [][\A c \in Callers :
          (pc[c] = "flDrain" /\ flIdx[c] <= flEnd[c] /\ pc'[c] = "flDrain")
              => mTaskVec'[held[c]] = mTaskVec[held[c]]]_vars

\* the threads of Core i that are inside mIoService.run()
RunningWorkers(i) == {w \in Workers : pool[i][w] \notin {"none", "exited"}}

C15_DrainExceptionCaught == \A c \in Callers : pc[c] # "flThrown"

\* C19: the body of a postEvent task runs at most once, and whenever a worker
\* is about to erase a task the task is still in mTaskVec.
C19_AtMostOnce ==
    /\ \A t \in TaskIds : tasks[t].ran <= 1
    /\ \A i \in Insts, w \in Workers : pool[i][w] = "erase" => InRegistry(i, wtask[i][w])

\* C17: the call instance() without argument never returns a null handle,
\* whatever a concurrent release() does between its two lookups.
C17_InstanceNeverNull ==
    [][\A c \in Callers :
          (pc[c] \in {"giRenew", "giCur"} /\ pc'[c] = "idle") => held'[c] # 0]_vars

\* C18: useCount() never wraps: it never returns 0 - 1 taken modulo 2^32, the
\* value use_count() - 1 has on a null handle.
C18_UseCountNeverWraps ==
    \A c \in Callers : ucResult[c] # <<Limb - 1, Limb - 1>>

\* C20: once the teardown of a Core has returned, none of its threads is left
\* and no body of its tasks runs any more: not a postEvent task, not a batch
\* handler of postCache, not a fan-out handler that was posted before or while
\* the service was stopped.
C20_NoRunAfterTeardown ==
    [][/\ \A i \in Insts : alive'[i] = "dead" => RunningWorkers(i)' = {}
       /\ \A t \in TaskIds : alive[tasks[t].inst] = "dead" => tasks'[t] = tasks[t]
       /\ \A b \in BatchIds : alive[batches[b].inst] = "dead" => batches'[b] = batches[b]]_vars

\* the teardown of Core 1 has returned, and its batch handler, running when the
\* service was stopped, had posted fan-out handlers after the stop
C20_Witness ==
    /\ alive[1] = "dead" /\ ~terminated
    /\ \A c \in Callers : dying[c] = 0
    /\ \E b \in BatchIds : batches[b].inst = 1 /\ batches[b].late > 0

\* C16: teardown always completes: unless a send has thrown out of a worker, a
\* thread that has begun ~Core (holding the instance mutex when it came through
\* release()) ends it, with every worker joined and the mutex free again,
\* whatever the other callers do meanwhile.
C16_TeardownCompletes ==
    \A c \in Callers :
        (dying[c] # 0) ~>
            \/ terminated
            \/ /\ dying[c] = 0 /\ mutex # c
               /\ \A i \in Insts : alive[i] = "dead" => RunningWorkers(i) = {}

\* release() on thread 1 is in ~Core under the instance mutex while a worker is
\* still inside a handler and thread 2 is in the middle of instance()
C16_Witness ==
    /\ dying[1] # 0 /\ mutex = 1
    /\ \E w \in Workers : pool[dying[1]][w] \in {"erase", "fanout"}
    /\ pc[2] \in {"giTest", "giRenew", "giCur", "peSubmit"}

====
